---- MODULE Spec2Model ----
(***************************************************************************)
(* TypeScriptServiceConfiguration (typescript-language-features):          *)
(* a snapshot of the settings that control tsserver, built from the        *)
(* layered workspace configuration, and its equality predicate.            *)
(*                                                                         *)
(* JavaScript values are tagged records.  A string is a sequence of        *)
(* one-character strings, so that startsWith, slice, toLowerCase and       *)
(* path.join are computed and not assumed.  Paths follow Node's posix      *)
(* flavour of the path module (path.sep is "/").                           *)
(***************************************************************************)
EXTENDS Integers, Sequences, FiniteSets, TLC

VARIABLES
    store,      \* the layered settings store: the settings [key, scope, value] that are set
    homedir,    \* os.homedir() of the process
    snapshots,  \* every TypeScriptServiceConfiguration constructed so far, oldest first
    edits,      \* number of changes made to the settings store
    ret         \* the outcome of the most recent call

vars == <<store, homedir, snapshots, edits, ret>>

---------------------------------------------------------------------------
(* Bounds of the model *)

\* changes to the settings store in one behaviour of Spec
MaxGeneralEdits == 1
\* changes to the settings store in one behaviour of SpecEdits
MaxEdits == 2
\* objects constructed in one behaviour
MaxSnapshots == 2
\* characters of a typescript.tsdk path in SpecTsdk
MaxPathLen == 4
\* how far around 0, the floor and the default the memory limits of SpecMem go
MemSpan == 4

---------------------------------------------------------------------------
(* JavaScript values *)

Undefined == [t |-> "undefined"]
Null == [t |-> "null"]
Bool(b) == [t |-> "boolean", v |-> b]
Str(s) == [t |-> "string", v |-> s]
\* a number that is an integer within the safe range: n
NumInt(n) == [t |-> "number", k |-> "int", v |-> n]
\* a number with a fractional part: n + 0.5
NumFrac(n) == [t |-> "number", k |-> "frac", v |-> n]
\* an integer-valued number outside the safe range: n * 2^53, n # 0
NumUnsafe(n) == [t |-> "number", k |-> "unsafe", v |-> n]
\* an array: the sequence of its elements
Arr(s) == [t |-> "array", v |-> s]
\* an object: its entries [key, val] in insertion order, keys distinct
Obj(entries) == [t |-> "object", v |-> entries]

TypeOf(x) ==
    IF x.t \in {"null", "array", "object"} THEN "object" ELSE x.t

Truthy(x) ==
    CASE x.t \in {"undefined", "null"} -> FALSE
      [] x.t = "boolean" -> x.v
      [] x.t = "number" -> ~(x.k = "int" /\ x.v = 0)
      [] x.t = "string" -> Len(x.v) > 0
      [] OTHER -> TRUE

\* a === b, for the primitive values the fields compared with it hold
StrictEquals(a, b) == a = b

NumberIsSafeInteger(x) == x.t = "number" /\ x.k = "int"

MathMax(a, b) == IF a >= b THEN a ELSE b

UpperLetters ==
    <<"A", "B", "C", "D", "E", "F", "G", "H", "I", "J", "K", "L", "M",
      "N", "O", "P", "Q", "R", "S", "T", "U", "V", "W", "X", "Y", "Z">>

LowerLetters ==
    <<"a", "b", "c", "d", "e", "f", "g", "h", "i", "j", "k", "l", "m",
      "n", "o", "p", "q", "r", "s", "t", "u", "v", "w", "x", "y", "z">>

LowerChar(c) ==
    IF \E i \in 1..Len(UpperLetters) : UpperLetters[i] = c
    THEN LowerLetters[CHOOSE i \in 1..Len(UpperLetters) : UpperLetters[i] = c]
    ELSE c

UpperChar(c) ==
    IF \E i \in 1..Len(LowerLetters) : LowerLetters[i] = c
    THEN UpperLetters[CHOOSE i \in 1..Len(LowerLetters) : LowerLetters[i] = c]
    ELSE c

RECURSIVE ToLowerCase(_)
ToLowerCase(s) ==
    IF s = <<>> THEN <<>> ELSE <<LowerChar(Head(s))>> \o ToLowerCase(Tail(s))

StartsWith(s, prefix) ==
    Len(s) >= Len(prefix) /\ SubSeq(s, 1, Len(prefix)) = prefix

\* s.slice(n)
Slice(s, n) == SubSeq(s, n + 1, Len(s))

---------------------------------------------------------------------------
(* path (posix) *)

PathSep == <<"/">>

\* the segments of a path between separators, empty ones included
RECURSIVE SplitPath(_, _, _)
SplitPath(path, cur, acc) ==
    IF path = <<>> THEN Append(acc, cur)
    ELSE IF Head(path) = "/" THEN SplitPath(Tail(path), <<>>, Append(acc, cur))
    ELSE SplitPath(Tail(path), Append(cur, Head(path)), acc)

RECURSIVE NormalizeSegments(_, _, _)
NormalizeSegments(segs, res, allowAboveRoot) ==
    IF segs = <<>> THEN res
    ELSE LET seg == Head(segs)
             rest == Tail(segs)
         IN  IF seg = <<>> \/ seg = <<".">>
             THEN NormalizeSegments(rest, res, allowAboveRoot)
             ELSE IF seg = <<".", ".">>
             THEN IF res # <<>> /\ res[Len(res)] # <<".", ".">>
                  THEN NormalizeSegments(rest, SubSeq(res, 1, Len(res) - 1), allowAboveRoot)
                  ELSE IF allowAboveRoot
                  THEN NormalizeSegments(rest, Append(res, seg), allowAboveRoot)
                  ELSE NormalizeSegments(rest, res, allowAboveRoot)
             ELSE NormalizeSegments(rest, Append(res, seg), allowAboveRoot)

RECURSIVE JoinSegments(_)
JoinSegments(segs) ==
    IF segs = <<>> THEN <<>>
    ELSE IF Len(segs) = 1 THEN Head(segs)
    ELSE Head(segs) \o PathSep \o JoinSegments(Tail(segs))

PathNormalize(path) ==
    IF path = <<>> THEN <<".">>
    ELSE LET isAbsolute == Head(path) = "/"
             trailingSeparator == path[Len(path)] = "/"
             body == JoinSegments(NormalizeSegments(SplitPath(path, <<>>, <<>>), <<>>, ~isAbsolute))
         IN  IF body = <<>>
             THEN IF isAbsolute THEN PathSep
                  ELSE IF trailingSeparator THEN <<".", "/">> ELSE <<".">>
             ELSE LET withTrail == IF trailingSeparator THEN body \o PathSep ELSE body
                  IN  IF isAbsolute THEN PathSep \o withTrail ELSE withTrail

PathJoin(a, b) ==
    LET joined == IF a = <<>> THEN b
                  ELSE IF b = <<>> THEN a
                  ELSE a \o PathSep \o b
    IN  IF joined = <<>> THEN <<".">> ELSE PathNormalize(joined)

---------------------------------------------------------------------------
(* TsServerLogLevel *)

TsServerLogLevel_Off == 0
TsServerLogLevel_Normal == 1
TsServerLogLevel_Terse == 2
TsServerLogLevel_Verbose == 3

S_off == <<"o", "f", "f">>
S_normal == <<"n", "o", "r", "m", "a", "l">>
S_terse == <<"t", "e", "r", "s", "e">>
S_verbose == <<"v", "e", "r", "b", "o", "s", "e">>

\* The outcome of a call: a returned value, or a thrown TypeError.
Return(v) == [threw |-> FALSE, value |-> v]
ThrowTypeError == [threw |-> TRUE, value |-> 0]

\* fromString with the faulty comparison of the value as written
TsServerLogLevel_fromString_CaseSensitive(value) ==
    IF ~Truthy(value) THEN Return(TsServerLogLevel_Off)
    ELSE IF TypeOf(value) # "string" THEN ThrowTypeError
    ELSE CASE value.v = S_normal -> Return(TsServerLogLevel_Normal)
           [] value.v = S_terse -> Return(TsServerLogLevel_Terse)
           [] value.v = S_verbose -> Return(TsServerLogLevel_Verbose)
           [] OTHER -> Return(TsServerLogLevel_Off)

\* switch (value && value.toLowerCase()): a falsy value is switched on as it
\* is and matches no case; a truthy value that is no string has no
\* toLowerCase method, and the call throws.
TsServerLogLevel_fromString(value) ==
    IF ~Truthy(value) THEN Return(TsServerLogLevel_Off)
    ELSE IF TypeOf(value) # "string" THEN ThrowTypeError
    ELSE LET lower == ToLowerCase(value.v)
         IN  CASE lower = S_normal -> Return(TsServerLogLevel_Normal)
               [] lower = S_terse -> Return(TsServerLogLevel_Terse)
               [] lower = S_verbose -> Return(TsServerLogLevel_Verbose)
               [] OTHER -> Return(TsServerLogLevel_Off)

TsServerLogLevel_toString(value) ==
    CASE value = TsServerLogLevel_Normal -> S_normal
      [] value = TsServerLogLevel_Terse -> S_terse
      [] value = TsServerLogLevel_Verbose -> S_verbose
      [] OTHER -> S_off

SeparateSyntaxServerConfiguration_Disabled == 0
SeparateSyntaxServerConfiguration_Enabled == 1

---------------------------------------------------------------------------
(* The layered settings provider (vscode.workspace.getConfiguration()) *)

K_tsdk == "typescript.tsdk"
K_log == "typescript.tsserver.log"
K_pluginPaths == "typescript.tsserver.pluginPaths"
K_checkJs == "javascript.implicitProjectConfig.checkJs"
K_experimentalDecorators == "javascript.implicitProjectConfig.experimentalDecorators"
K_strictNullChecks == "js/ts.implicitProjectConfig.strictNullChecks"
K_strictFunctionTypes == "js/ts.implicitProjectConfig.strictFunctionTypes"
K_npm == "typescript.npm"
K_disableAutomaticTypeAcquisition == "typescript.disableAutomaticTypeAcquisition"
K_locale == "typescript.locale"
K_useSeparateSyntaxServer == "typescript.tsserver.useSeparateSyntaxServer"
K_enableProjectDiagnostics == "typescript.tsserver.experimental.enableProjectDiagnostics"
K_watchOptions == "typescript.tsserver.watchOptions"
K_includePackageJsonAutoImports == "typescript.preferences.includePackageJsonAutoImports"
K_maxTsServerMemory == "typescript.tsserver.maxTsServerMemory"
K_enablePromptUseWorkspaceTsdk == "typescript.enablePromptUseWorkspaceTsdk"

Keys ==
    { K_tsdk, K_log, K_pluginPaths, K_checkJs, K_experimentalDecorators,
      K_strictNullChecks, K_strictFunctionTypes, K_npm,
      K_disableAutomaticTypeAcquisition, K_locale, K_useSeparateSyntaxServer,
      K_enableProjectDiagnostics, K_watchOptions,
      K_includePackageJsonAutoImports, K_maxTsServerMemory,
      K_enablePromptUseWorkspaceTsdk }

Scopes == {"defaultValue", "globalValue", "workspaceValue"}

Setting(key, scope, value) == [key |-> key, scope |-> scope, value |-> value]

\* a store holds at most one setting for a key and a scope, none undefined
StoreOf(settings) == {s \in settings : s.value # Undefined}

EmptyStore == {}

\* the value one scope holds for a key, undefined when it does not set it
ScopeValue(configuration, key, scope) ==
    IF \E s \in configuration : s.key = key /\ s.scope = scope
    THEN (CHOOSE s \in configuration : s.key = key /\ s.scope = scope).value
    ELSE Undefined

\* configuration.inspect(key): the value of each scope on its own
ConfigInspect(configuration, key) ==
    [sc \in Scopes |-> ScopeValue(configuration, key, sc)]

\* the merged value: workspace overrides global overrides default
EffectiveValue(configuration, key) ==
    LET layers == ConfigInspect(configuration, key)
    IN  IF layers.workspaceValue # Undefined THEN layers.workspaceValue
        ELSE IF layers.globalValue # Undefined THEN layers.globalValue
        ELSE layers.defaultValue

\* configuration.get(key, defaultValue): the merged value as stored, of
\* whatever type it is; defaultValue when no scope sets the key
ConfigGet(configuration, key, defaultValue) ==
    LET value == EffectiveValue(configuration, key)
    IN  IF value = Undefined THEN defaultValue ELSE value

---------------------------------------------------------------------------
(* TypeScriptServiceConfiguration *)

defaultMaxMemory == 3072
minimumMaxMemory == 128

\* fixPathPrefixes joining the whole value, prefix included
fixPathPrefixes_NoSlice(inspectValue) ==
    LET pathPrefix == <<"~">> \o PathSep
    IN  IF StartsWith(inspectValue, pathPrefix)
        THEN PathJoin(homedir, inspectValue)
        ELSE inspectValue

fixPathPrefixes(inspectValue) ==
    LET pathPrefix == <<"~">> \o PathSep
    IN  IF StartsWith(inspectValue, pathPrefix)
        THEN PathJoin(homedir, Slice(inspectValue, Len(pathPrefix)))
        ELSE inspectValue

\* extractGlobalTsdk reading the merged value of the key
extractGlobalTsdk_Merged(configuration) ==
    LET value == EffectiveValue(configuration, K_tsdk)
    IN  IF TypeOf(value) = "string"
        THEN Str(fixPathPrefixes(value.v))
        ELSE Null

extractGlobalTsdk(configuration) ==
    LET inspect == ConfigInspect(configuration, K_tsdk)
    IN  IF TypeOf(inspect.globalValue) = "string"
        THEN Str(fixPathPrefixes(inspect.globalValue.v))
        ELSE Null

extractLocalTsdk(configuration) ==
    LET inspect == ConfigInspect(configuration, K_tsdk)
    IN  IF TypeOf(inspect.workspaceValue) = "string"
        THEN Str(fixPathPrefixes(inspect.workspaceValue.v))
        ELSE Null

readTsServerLogLevel(configuration) ==
    TsServerLogLevel_fromString(ConfigGet(configuration, K_log, Str(S_off)))

readTsServerPluginPaths(configuration) ==
    ConfigGet(configuration, K_pluginPaths, Arr(<<>>))

readCheckJs(configuration) ==
    ConfigGet(configuration, K_checkJs, Bool(FALSE))

readExperimentalDecorators(configuration) ==
    ConfigGet(configuration, K_experimentalDecorators, Bool(FALSE))

\* readImplicitStrictNullChecks with the default of its neighbours
readImplicitStrictNullChecks_DefaultFalse(configuration) ==
    ConfigGet(configuration, K_strictNullChecks, Bool(FALSE))

readImplicitStrictNullChecks(configuration) ==
    ConfigGet(configuration, K_strictNullChecks, Bool(TRUE))

readImplicitStrictFunctionTypes(configuration) ==
    ConfigGet(configuration, K_strictFunctionTypes, Bool(TRUE))

readNpmLocation(configuration) ==
    ConfigGet(configuration, K_npm, Null)

readDisableAutomaticTypeAcquisition(configuration) ==
    ConfigGet(configuration, K_disableAutomaticTypeAcquisition, Bool(FALSE))

extractLocale(configuration) ==
    ConfigGet(configuration, K_locale, Null)

\* readUseSeparateSyntaxServer testing if (value) in place of value === true
readUseSeparateSyntaxServer_Truthy(configuration) ==
    LET value == ConfigGet(configuration, K_useSeparateSyntaxServer, Bool(TRUE))
    IN  IF Truthy(value)
        THEN SeparateSyntaxServerConfiguration_Enabled
        ELSE SeparateSyntaxServerConfiguration_Disabled

readUseSeparateSyntaxServer(configuration) ==
    LET value == ConfigGet(configuration, K_useSeparateSyntaxServer, Bool(TRUE))
    IN  IF StrictEquals(value, Bool(TRUE))
        THEN SeparateSyntaxServerConfiguration_Enabled
        ELSE SeparateSyntaxServerConfiguration_Disabled

readEnableProjectDiagnostics(configuration) ==
    ConfigGet(configuration, K_enableProjectDiagnostics, Bool(FALSE))

readWatchOptions(configuration) ==
    ConfigGet(configuration, K_watchOptions, Undefined)

readIncludePackageJsonAutoImports(configuration) ==
    ConfigGet(configuration, K_includePackageJsonAutoImports, Undefined)

\* readMaxTsServerMemory with Math.min in place of Math.max
readMaxTsServerMemory_Min(configuration) ==
    LET memoryInMB == ConfigGet(configuration, K_maxTsServerMemory, NumInt(defaultMaxMemory))
    IN  IF ~NumberIsSafeInteger(memoryInMB)
        THEN defaultMaxMemory
        ELSE IF memoryInMB.v <= minimumMaxMemory THEN memoryInMB.v ELSE minimumMaxMemory

readMaxTsServerMemory(configuration) ==
    LET memoryInMB == ConfigGet(configuration, K_maxTsServerMemory, NumInt(defaultMaxMemory))
    IN  IF ~NumberIsSafeInteger(memoryInMB)
        THEN defaultMaxMemory
        ELSE MathMax(memoryInMB.v, minimumMaxMemory)

readEnablePromptUseWorkspaceTsdk(configuration) ==
    ConfigGet(configuration, K_enablePromptUseWorkspaceTsdk, Bool(FALSE))

\* new TypeScriptServiceConfiguration(): the object, or the TypeError of the
\* one reader that can throw
Constructor(configuration) ==
    LET logLevel == readTsServerLogLevel(configuration)
    IN  IF logLevel.threw THEN ThrowTypeError
        ELSE Return(
          [ locale |-> extractLocale(configuration),
            globalTsdk |-> extractGlobalTsdk(configuration),
            localTsdk |-> extractLocalTsdk(configuration),
            npmLocation |-> readNpmLocation(configuration),
            tsServerLogLevel |-> logLevel.value,
            tsServerPluginPaths |-> readTsServerPluginPaths(configuration),
            checkJs |-> readCheckJs(configuration),
            experimentalDecorators |-> readExperimentalDecorators(configuration),
            implicitStrictNullChecks |-> readImplicitStrictNullChecks(configuration),
            implicitStrictFunctionTypes |-> readImplicitStrictFunctionTypes(configuration),
            disableAutomaticTypeAcquisition |-> readDisableAutomaticTypeAcquisition(configuration),
            separateSyntaxServer |-> readUseSeparateSyntaxServer(configuration),
            enableProjectDiagnostics |-> readEnableProjectDiagnostics(configuration),
            maxTsServerMemory |-> readMaxTsServerMemory(configuration),
            enablePromptUseWorkspaceTsdk |-> readEnablePromptUseWorkspaceTsdk(configuration),
            watchOptions |-> readWatchOptions(configuration),
            includePackageJsonAutoImports |-> readIncludePackageJsonAutoImports(configuration) ])

\* arrays.equals: same length and the same element at every index
ArraysEquals(a, b) ==
    /\ Len(a.v) = Len(b.v)
    /\ \A i \in 1..Len(a.v) : StrictEquals(a.v[i], b.v[i])

ObjectKeys(o) == {o.v[i].key : i \in 1..Len(o.v)}

ObjectGet(o, key) == o.v[CHOOSE i \in 1..Len(o.v) : o.v[i].key = key].val

\* objects.equals: deep equality; the keys of a mapping are compared as a
\* set, whatever order they were inserted in
RECURSIVE ObjectsEquals(_, _)
ObjectsEquals(one, other) ==
    IF one.t # other.t THEN FALSE
    ELSE CASE one.t = "object" ->
                /\ ObjectKeys(one) = ObjectKeys(other)
                /\ \A key \in ObjectKeys(one) :
                       ObjectsEquals(ObjectGet(one, key), ObjectGet(other, key))
           [] one.t = "array" ->
                /\ Len(one.v) = Len(other.v)
                /\ \A i \in 1..Len(one.v) : ObjectsEquals(one.v[i], other.v[i])
           [] OTHER -> StrictEquals(one, other)

\* isEqualTo without its last conjunct
isEqualTo_OmitsField(this, other) ==
    /\ StrictEquals(this.locale, other.locale)
    /\ StrictEquals(this.globalTsdk, other.globalTsdk)
    /\ StrictEquals(this.localTsdk, other.localTsdk)
    /\ StrictEquals(this.npmLocation, other.npmLocation)
    /\ this.tsServerLogLevel = other.tsServerLogLevel
    /\ StrictEquals(this.checkJs, other.checkJs)
    /\ StrictEquals(this.experimentalDecorators, other.experimentalDecorators)
    /\ StrictEquals(this.implicitStrictNullChecks, other.implicitStrictNullChecks)
    /\ StrictEquals(this.implicitStrictFunctionTypes, other.implicitStrictFunctionTypes)
    /\ StrictEquals(this.disableAutomaticTypeAcquisition, other.disableAutomaticTypeAcquisition)
    /\ ArraysEquals(this.tsServerPluginPaths, other.tsServerPluginPaths)
    /\ this.separateSyntaxServer = other.separateSyntaxServer
    /\ StrictEquals(this.enableProjectDiagnostics, other.enableProjectDiagnostics)
    /\ this.maxTsServerMemory = other.maxTsServerMemory
    /\ ObjectsEquals(this.watchOptions, other.watchOptions)
    /\ StrictEquals(this.enablePromptUseWorkspaceTsdk, other.enablePromptUseWorkspaceTsdk)

\* isEqualTo comparing this.globalTsdk with other.localTsdk
isEqualTo_Crossed(this, other) ==
    /\ StrictEquals(this.locale, other.locale)
    /\ StrictEquals(this.globalTsdk, other.localTsdk)
    /\ StrictEquals(this.localTsdk, other.localTsdk)
    /\ StrictEquals(this.npmLocation, other.npmLocation)
    /\ this.tsServerLogLevel = other.tsServerLogLevel
    /\ StrictEquals(this.checkJs, other.checkJs)
    /\ StrictEquals(this.experimentalDecorators, other.experimentalDecorators)
    /\ StrictEquals(this.implicitStrictNullChecks, other.implicitStrictNullChecks)
    /\ StrictEquals(this.implicitStrictFunctionTypes, other.implicitStrictFunctionTypes)
    /\ StrictEquals(this.disableAutomaticTypeAcquisition, other.disableAutomaticTypeAcquisition)
    /\ ArraysEquals(this.tsServerPluginPaths, other.tsServerPluginPaths)
    /\ this.separateSyntaxServer = other.separateSyntaxServer
    /\ StrictEquals(this.enableProjectDiagnostics, other.enableProjectDiagnostics)
    /\ this.maxTsServerMemory = other.maxTsServerMemory
    /\ ObjectsEquals(this.watchOptions, other.watchOptions)
    /\ StrictEquals(this.enablePromptUseWorkspaceTsdk, other.enablePromptUseWorkspaceTsdk)
    /\ StrictEquals(this.includePackageJsonAutoImports, other.includePackageJsonAutoImports)

isEqualTo(this, other) ==
    /\ StrictEquals(this.locale, other.locale)
    /\ StrictEquals(this.globalTsdk, other.globalTsdk)
    /\ StrictEquals(this.localTsdk, other.localTsdk)
    /\ StrictEquals(this.npmLocation, other.npmLocation)
    /\ this.tsServerLogLevel = other.tsServerLogLevel
    /\ StrictEquals(this.checkJs, other.checkJs)
    /\ StrictEquals(this.experimentalDecorators, other.experimentalDecorators)
    /\ StrictEquals(this.implicitStrictNullChecks, other.implicitStrictNullChecks)
    /\ StrictEquals(this.implicitStrictFunctionTypes, other.implicitStrictFunctionTypes)
    /\ StrictEquals(this.disableAutomaticTypeAcquisition, other.disableAutomaticTypeAcquisition)
    /\ ArraysEquals(this.tsServerPluginPaths, other.tsServerPluginPaths)
    /\ this.separateSyntaxServer = other.separateSyntaxServer
    /\ StrictEquals(this.enableProjectDiagnostics, other.enableProjectDiagnostics)
    /\ this.maxTsServerMemory = other.maxTsServerMemory
    /\ ObjectsEquals(this.watchOptions, other.watchOptions)
    /\ StrictEquals(this.enablePromptUseWorkspaceTsdk, other.enablePromptUseWorkspaceTsdk)
    /\ StrictEquals(this.includePackageJsonAutoImports, other.includePackageJsonAutoImports)

---------------------------------------------------------------------------
(* The values the settings are drawn from *)

S_en == <<"e", "n">>
S_a == <<"a">>
S_b == <<"b">>
S_auto == <<"a", "u", "t", "o">>
S_yes == <<"y", "e", "s">>
S_true == <<"t", "r", "u", "e">>
S_3000 == <<"3", "0", "0", "0">>
S_homeA == <<"~", "/", "a">>
S_rootA == <<"/", "a">>

Entry(key, val) == [key |-> key, val |-> val]

\* { a: "a", b: ["a", "b"] } and the same mapping inserted in the other order
WatchAB == Obj(<<Entry(S_a, Str(S_a)), Entry(S_b, Arr(<<Str(S_a), Str(S_b)>>))>>)
WatchBA == Obj(<<Entry(S_b, Arr(<<Str(S_a), Str(S_b)>>)), Entry(S_a, Str(S_a))>>)
\* the same keys, one nested value different
WatchABother == Obj(<<Entry(S_a, Str(S_a)), Entry(S_b, Arr(<<Str(S_b), Str(S_a)>>))>>)

PathsAB == Arr(<<Str(S_a), Str(S_b)>>)
PathsBA == Arr(<<Str(S_b), Str(S_a)>>)

BooleanKeys ==
    { K_checkJs, K_experimentalDecorators, K_strictNullChecks, K_strictFunctionTypes,
      K_disableAutomaticTypeAcquisition, K_enableProjectDiagnostics,
      K_enablePromptUseWorkspaceTsdk }

\* The settings changes of the general specification: for every key its
\* removal and well-typed values, and for some keys an ill-typed value.
GeneralSettings ==
    {Setting(k, "globalValue", v) : k \in BooleanKeys, v \in {Undefined, Bool(TRUE)}}
    \cup {Setting(k, "globalValue", Bool(FALSE)) :
            k \in {K_checkJs, K_strictNullChecks, K_strictFunctionTypes}}
    \cup {Setting(K_checkJs, "globalValue", Str(S_yes)),
          Setting(K_checkJs, "workspaceValue", Bool(FALSE))}
    \cup {Setting(K_locale, "globalValue", v) : v \in {Undefined, Str(S_en)}}
    \cup {Setting(K_npm, "globalValue", v) : v \in {Undefined, Str(<<"/", "n">>)}}
    \cup {Setting(K_log, "globalValue", v) :
            v \in {Undefined, Str(S_verbose), Str(<<"T", "e", "r", "s", "e">>), NumInt(1)}}
    \cup {Setting(K_pluginPaths, "globalValue", v) : v \in {Undefined, Arr(<<>>), PathsAB, PathsBA}}
    \cup {Setting(K_useSeparateSyntaxServer, "globalValue", v) :
            v \in {Undefined, Bool(TRUE), Bool(FALSE), Str(S_true)}}
    \cup {Setting(K_maxTsServerMemory, "globalValue", v) :
            v \in {Undefined, NumInt(50), NumInt(4096), Str(S_3000)}}
    \cup {Setting(K_watchOptions, "globalValue", v) :
            v \in {Undefined, WatchAB, WatchBA, WatchABother}}
    \cup {Setting(K_includePackageJsonAutoImports, "globalValue", v) :
            v \in {Undefined, Str(S_auto), Str(S_off)}}
    \cup {Setting(K_tsdk, "defaultValue", v) : v \in {Undefined, Str(<<"/", "d">>)}}
    \cup {Setting(K_tsdk, "globalValue", v) : v \in {Undefined, Str(S_homeA), Str(S_rootA)}}
    \cup {Setting(K_tsdk, "workspaceValue", v) :
            v \in {Undefined, Str(S_homeA), Str(S_rootA), NumInt(1)}}

\* A store in which the user has set several keys.
ConfiguredStore ==
    { Setting(K_tsdk, "globalValue", Str(S_homeA)),
      Setting(K_log, "globalValue", Str(S_verbose)),
      Setting(K_pluginPaths, "globalValue", PathsAB),
      Setting(K_checkJs, "globalValue", Bool(TRUE)),
      Setting(K_locale, "globalValue", Str(S_en)),
      Setting(K_useSeparateSyntaxServer, "globalValue", Bool(FALSE)),
      Setting(K_maxTsServerMemory, "globalValue", NumInt(4096)),
      Setting(K_watchOptions, "globalValue", WatchAB),
      Setting(K_includePackageJsonAutoImports, "globalValue", Str(S_auto)) }

HomeDirs == {<<"/", "h">>, <<"/">>}

---------------------------------------------------------------------------
(* The state machine *)

NoCall == [op |-> "none", this |-> 0, other |-> 0, value |-> FALSE, threw |-> FALSE]

Init ==
    /\ store = ConfiguredStore
    /\ homedir = <<"/", "h">>
    /\ snapshots = <<>>
    /\ edits = 0
    /\ ret = NoCall

\* The user, the workspace or the extension host changes one scope of one key.
UpdateSetting(key, scope, value) ==
    /\ ScopeValue(store, key, scope) # value
    /\ store' = StoreOf({s \in store : ~(s.key = key /\ s.scope = scope)}
                        \cup {Setting(key, scope, value)})
    /\ edits' = edits + 1
    /\ ret' = [NoCall EXCEPT !.op = "update"]
    /\ UNCHANGED <<homedir, snapshots>>

\* loadFromWorkspace handing out one shared object, refreshed at every call
loadFromWorkspace_Shared ==
    /\ Len(snapshots) < MaxSnapshots
    /\ LET outcome == Constructor(store)
           fresh == [config |-> outcome.value, src |-> store, at |-> edits]
       IN  /\ snapshots' = IF outcome.threw THEN snapshots
                           ELSE Append([i \in 1..Len(snapshots) |-> fresh], fresh)
           /\ ret' = [NoCall EXCEPT !.op = "loadFromWorkspace", !.threw = outcome.threw,
                                    !.this = IF outcome.threw THEN 0 ELSE Len(snapshots) + 1]
    /\ UNCHANGED <<store, homedir, edits>>

\* TypeScriptServiceConfiguration.loadFromWorkspace(): a new object, kept by the
\* caller from then on; together with it the model records the store it was
\* built from and how many changes had been made by then.
loadFromWorkspace ==
    /\ Len(snapshots) < MaxSnapshots
    /\ LET outcome == Constructor(store)
       IN  /\ snapshots' = IF outcome.threw THEN snapshots
                           ELSE Append(snapshots,
                                   [config |-> outcome.value, src |-> store, at |-> edits])
           /\ ret' = [NoCall EXCEPT !.op = "loadFromWorkspace", !.threw = outcome.threw,
                                    !.this = IF outcome.threw THEN 0 ELSE Len(snapshots) + 1]
    /\ UNCHANGED <<store, homedir, edits>>

\* snapshots[i].config.isEqualTo(snapshots[j].config)
isEqualToCall(i, j) ==
    /\ ret' = [NoCall EXCEPT !.op = "isEqualTo", !.this = i, !.other = j,
                             !.value = isEqualTo(snapshots[i].config, snapshots[j].config)]
    /\ UNCHANGED <<store, homedir, snapshots, edits>>

Next ==
    \/ \E s \in GeneralSettings :
          edits < MaxGeneralEdits /\ UpdateSetting(s.key, s.scope, s.value)
    \/ loadFromWorkspace
    \/ \E i, j \in 1..Len(snapshots) : isEqualToCall(i, j)

Spec == Init /\ [][Next]_vars

---------------------------------------------------------------------------
(* A store that is changed several times: a few keys, set, changed and removed *)

EditSettings ==
    {Setting(K_tsdk, "defaultValue", v) : v \in {Undefined, Str(<<"/", "d">>)}}
    \cup {Setting(K_tsdk, "globalValue", v) : v \in {Undefined, Str(S_homeA)}}
    \cup {Setting(K_tsdk, "workspaceValue", v) : v \in {Undefined, Str(S_homeA), NumInt(1)}}
    \cup {Setting(K_pluginPaths, "globalValue", v) : v \in {Undefined, PathsAB, PathsBA}}
    \cup {Setting(K_watchOptions, "globalValue", v) : v \in {Undefined, WatchAB, WatchBA}}
    \cup {Setting(K_checkJs, "globalValue", v) : v \in {Undefined, Bool(TRUE), Str(S_yes)}}

InitEdits ==
    /\ store = EmptyStore
    /\ homedir = <<"/", "h">>
    /\ snapshots = <<>>
    /\ edits = 0
    /\ ret = NoCall

NextEdits ==
    \/ \E s \in EditSettings :
          edits < MaxEdits /\ UpdateSetting(s.key, s.scope, s.value)
    \/ loadFromWorkspace
    \/ \E i, j \in 1..Len(snapshots) : isEqualToCall(i, j)

SpecEdits == InitEdits /\ [][NextEdits]_vars

---------------------------------------------------------------------------
(* The tsdk paths: every string over PathChars of at most MaxPathLen characters *)

PathChars == {"~", "/", ".", "a"}

PathStrings == UNION {[1..n -> PathChars] : n \in 0..MaxPathLen}

\* One scope of typescript.tsdk holds any path, the other none or "~/a".
InitTsdk ==
    /\ homedir \in HomeDirs
    /\ \E sc \in {"globalValue", "workspaceValue"}, p \in PathStrings,
          q \in {Undefined, Str(S_homeA)} :
          LET other == IF sc = "globalValue" THEN "workspaceValue" ELSE "globalValue"
          IN  store = StoreOf({Setting(K_tsdk, sc, Str(p)), Setting(K_tsdk, other, q)})
    /\ snapshots = <<>>
    /\ edits = 0
    /\ ret = NoCall

NextTsdk ==
    \/ loadFromWorkspace
    \/ \E i, j \in 1..Len(snapshots) : isEqualToCall(i, j)

SpecTsdk == InitTsdk /\ [][NextTsdk]_vars

---------------------------------------------------------------------------
(* The log levels: the four names in every letter case, and other values *)

CaseVariants(name) ==
    { [i \in 1..Len(name) |-> IF i \in S THEN UpperChar(name[i]) ELSE name[i]] :
        S \in SUBSET (1..Len(name)) }

LevelNames == {S_off, S_normal, S_terse, S_verbose}

LogValues ==
    {Str(s) : s \in UNION {CaseVariants(name) : name \in LevelNames}}
    \cup {Str(<<>>), Str(S_a), Str(<<"o", "f">>), Str(<<"o", "f", "f", "f">>),
          Str(<<"d", "e", "b", "u", "g">>), Undefined, Null,
          Bool(FALSE), Bool(TRUE), NumInt(0), NumInt(1)}

InitLog ==
    /\ homedir = <<"/", "h">>
    /\ \E v \in LogValues : store = StoreOf({Setting(K_log, "globalValue", v)})
    /\ snapshots = <<>>
    /\ edits = 0
    /\ ret = NoCall

NextLog ==
    \/ loadFromWorkspace
    \/ \E i, j \in 1..Len(snapshots) : isEqualToCall(i, j)

SpecLog == InitLog /\ [][NextLog]_vars

---------------------------------------------------------------------------
(* The memory limits: integers around 0, the floor and the default, and
   values that are no safe integer *)

MemValues ==
    {NumInt(n) : n \in ((0 - MemSpan)..MemSpan)
                       \cup ((minimumMaxMemory - MemSpan)..(minimumMaxMemory + MemSpan))
                       \cup ((defaultMaxMemory - MemSpan)..(defaultMaxMemory + MemSpan))
                       \cup {50, 3000, 4096, 1000000, 0 - 1000000}}
    \cup {NumFrac(n) : n \in {0 - 1, 0, 50, 127, 128, 3000}}
    \cup {NumUnsafe(n) : n \in {0 - 1, 1}}
    \cup {Undefined, Null, Str(S_3000), Str(<<>>), Bool(TRUE)}

InitMem ==
    /\ homedir = <<"/", "h">>
    /\ \E v \in MemValues : store = StoreOf({Setting(K_maxTsServerMemory, "globalValue", v)})
    /\ snapshots = <<>>
    /\ edits = 0
    /\ ret = NoCall

NextMem ==
    \/ loadFromWorkspace
    \/ \E i, j \in 1..Len(snapshots) : isEqualToCall(i, j)

SpecMem == InitMem /\ [][NextMem]_vars

---------------------------------------------------------------------------
(* What the properties below speak of *)

Built == 1..Len(snapshots)

Cfg(i) == snapshots[i].config

\* the merged raw value of a key in the store snapshot i was built from
Raw(i, key) == EffectiveValue(snapshots[i].src, key)

\* the scopes of typescript.tsdk in the store snapshot i was built from
TsdkScopes(i) == ConfigInspect(snapshots[i].src, K_tsdk)

FieldNames ==
    { "locale", "globalTsdk", "localTsdk", "npmLocation", "tsServerLogLevel",
      "tsServerPluginPaths", "checkJs", "experimentalDecorators",
      "implicitStrictNullChecks", "implicitStrictFunctionTypes",
      "disableAutomaticTypeAcquisition", "separateSyntaxServer",
      "enableProjectDiagnostics", "maxTsServerMemory",
      "enablePromptUseWorkspaceTsdk", "watchOptions",
      "includePackageJsonAutoImports" }

\* A structured value without its insertion order: a mapping becomes a
\* function on its set of keys, an array the sequence of its elements.
RECURSIVE Canonical(_)
Canonical(x) ==
    CASE x.t = "object" ->
            <<"object", [key \in ObjectKeys(x) |-> Canonical(ObjectGet(x, key))]>>
      [] x.t = "array" ->
            <<"array", [i \in 1..Len(x.v) |-> Canonical(x.v[i])]>>
      [] OTHER -> <<x.t, x>>

\* field f of a and of b compare equal, as the field's kind requires
SameField(f, a, b) ==
    CASE f = "tsServerPluginPaths" -> a[f].v = b[f].v
      [] f = "watchOptions" -> Canonical(a[f]) = Canonical(b[f])
      [] OTHER -> a[f] = b[f]

DifferingFields(a, b) == {f \in FieldNames : ~SameField(f, a, b)}

HomePrefix == <<"~", "/">>

\* what a tsdk string is to resolve to
ExpandHome(v) ==
    IF StartsWith(v, HomePrefix)
    THEN PathJoin(homedir, SubSeq(v, Len(HomePrefix) + 1, Len(v)))
    ELSE v

Chars(s) == {s[i] : i \in 1..Len(s)}

---------------------------------------------------------------------------
(* C1: isEqualTo returns true exactly when all 17 fields compare equal:
   tsServerPluginPaths as ordered sequences, watchOptions by deep structure
   whatever the insertion order of keys, every other field by identity of
   value.  Two snapshots that differ in one field only are reported unequal. *)
C1_IsEqualToIsFieldwise ==
    ret.op = "isEqualTo" =>
        ret.value = (DifferingFields(Cfg(ret.this), Cfg(ret.other)) = {})

\* two snapshots that differ in the order of the plugin paths only, compared
C1_Witness ==
    /\ ret.op = "isEqualTo"
    /\ ~ret.value
    /\ DifferingFields(Cfg(ret.this), Cfg(ret.other)) = {"tsServerPluginPaths"}
    /\ Cfg(ret.this).tsServerPluginPaths = PathsAB
    /\ Cfg(ret.other).tsServerPluginPaths = PathsBA

(* C2: maxTsServerMemory is 3072 when the raw value is absent or no safe
   integer, and otherwise the raw value floored at 128, with no upper clamp;
   it is never below 128. *)
C2_MemoryResolved ==
    \A i \in Built :
        LET v == Raw(i, K_maxTsServerMemory)
            m == Cfg(i).maxTsServerMemory
        IN  /\ m \in Int
            /\ m >= 128
            /\ (v.t # "number" => m = 3072)
            /\ (v.t = "number" /\ v.k # "int" => m = 3072)
            /\ (v.t = "number" /\ v.k = "int" /\ v.v < 128 => m = 128)
            /\ (v.t = "number" /\ v.k = "int" /\ v.v >= 128 => m = v.v)

\* a snapshot built from the raw value 50
C2_Witness ==
    \E i \in Built :
        /\ Raw(i, K_maxTsServerMemory) = NumInt(50)
        /\ Cfg(i).maxTsServerMemory = 128

(* C3, as stated: separateSyntaxServer is Enabled exactly when the stored
   value is the boolean true, and Disabled otherwise, absent included. *)
C3_EnabledOnlyWhenStoredTrue ==
    \A i \in Built :
        (Cfg(i).separateSyntaxServer = SeparateSyntaxServerConfiguration_Enabled)
            <=> (Raw(i, K_useSeparateSyntaxServer) = Bool(TRUE))

(* C3, amended: separateSyntaxServer is Enabled exactly when the stored
   value is the boolean true or the setting is absent; for every other
   stored value it is Disabled. *)
C3_EnabledWhenTrueOrAbsent ==
    \A i \in Built :
        LET v == Raw(i, K_useSeparateSyntaxServer)
        IN  Cfg(i).separateSyntaxServer =
                IF v = Bool(TRUE) \/ v = Undefined
                THEN SeparateSyntaxServerConfiguration_Enabled
                ELSE SeparateSyntaxServerConfiguration_Disabled

\* a snapshot built while the setting was absent
C3_Witness ==
    \E i \in Built :
        /\ Raw(i, K_useSeparateSyntaxServer) = Undefined
        /\ Cfg(i).separateSyntaxServer = SeparateSyntaxServerConfiguration_Enabled

(* C4: loadFromWorkspace never raises an error, and a value of the wrong
   type resolves to the field's default: a log level that is no string to
   Off, a checkJs that is no boolean to false. *)
C4_NeverFailsAndDefaults ==
    /\ ret.op = "loadFromWorkspace" => ~ret.threw
    /\ \A i \in Built :
        /\ Raw(i, K_log).t \notin {"string", "undefined"}
              => Cfg(i).tsServerLogLevel = TsServerLogLevel_Off
        /\ Raw(i, K_checkJs).t \notin {"boolean", "undefined"}
              => Cfg(i).checkJs = Bool(FALSE)

(* C5: globalTsdk depends on the global-scope value of typescript.tsdk only
   and localTsdk on the workspace-scope value only.  A scope that does not
   set the key leaves its field absent, whatever the default scope and the
   other scope hold; a workspace string alone leaves globalTsdk absent and
   resolves into localTsdk. *)
C5_TsdkScopesIndependent ==
    /\ \A i, j \in Built :
        /\ TsdkScopes(i).globalValue = TsdkScopes(j).globalValue
              => Cfg(i).globalTsdk = Cfg(j).globalTsdk
        /\ TsdkScopes(i).workspaceValue = TsdkScopes(j).workspaceValue
              => Cfg(i).localTsdk = Cfg(j).localTsdk
    /\ \A i \in Built :
        /\ TsdkScopes(i).globalValue = Undefined => Cfg(i).globalTsdk = Null
        /\ TsdkScopes(i).workspaceValue = Undefined => Cfg(i).localTsdk = Null
        /\ TsdkScopes(i).workspaceValue.t = "string"
              => Cfg(i).localTsdk = Str(ExpandHome(TsdkScopes(i).workspaceValue.v))
        /\ TsdkScopes(i).globalValue.t = "string"
              => Cfg(i).globalTsdk = Str(ExpandHome(TsdkScopes(i).globalValue.v))

\* a snapshot built with a default-scope value and a workspace override only
C5_Witness ==
    \E i \in Built :
        /\ TsdkScopes(i).defaultValue = Str(<<"/", "d">>)
        /\ TsdkScopes(i).globalValue = Undefined
        /\ TsdkScopes(i).workspaceValue = Str(S_homeA)
        /\ Cfg(i).globalTsdk = Null
        /\ Cfg(i).localTsdk = Str(<<"/", "h", "/", "a">>)

(* C6: a global- or workspace-scope tsdk string that begins with "~/"
   resolves to the join of the home directory and the rest of the string,
   any other string to itself; the resolved field never begins with "~/",
   and holds no "~" at all when the rest of the string holds none. *)
C6_HomePrefixExpanded ==
    \A i \in Built :
        \A sc \in {"globalValue", "workspaceValue"} :
            LET v == TsdkScopes(i)[sc]
                f == IF sc = "globalValue" THEN Cfg(i).globalTsdk ELSE Cfg(i).localTsdk
            IN  v.t = "string" =>
                    /\ f = Str(ExpandHome(v.v))
                    /\ ~StartsWith(f.v, HomePrefix)
                    /\ (StartsWith(v.v, HomePrefix)
                          /\ "~" \notin Chars(SubSeq(v.v, 3, Len(v.v)))
                          => "~" \notin Chars(f.v))

\* a snapshot built from the global override "~/.." under the home "/h"
C6_Witness ==
    \E i \in Built :
        /\ homedir = <<"/", "h">>
        /\ TsdkScopes(i).globalValue = Str(<<"~", "/", ".", ".">>)
        /\ TsdkScopes(i).workspaceValue = Str(S_homeA)
        /\ Cfg(i).globalTsdk = Str(<<"/">>)
        /\ Cfg(i).localTsdk = Str(<<"/", "h", "/", "a">>)

AllLevelVariants == UNION {CaseVariants(name) : name \in LevelNames}

(* C7: for each of the names off, normal, terse and verbose in any letter
   case, toString(fromString(name)) is the name in lower case; an
   unrecognized string or an absent setting resolves to Off. *)
C7_LogLevelRoundTrips ==
    \A i \in Built :
        LET v == Raw(i, K_log)
            level == Cfg(i).tsServerLogLevel
        IN  /\ \A name \in LevelNames :
                  v.t = "string" /\ v.v \in CaseVariants(name)
                      => TsServerLogLevel_toString(level) = name
            /\ (v = Undefined \/ (v.t = "string" /\ v.v \notin AllLevelVariants))
                  => level = TsServerLogLevel_Off

\* a snapshot built from "VerBosE"
C7_Witness ==
    \E i \in Built :
        /\ Raw(i, K_log) = Str(<<"V", "e", "r", "B", "o", "s", "E">>)
        /\ Cfg(i).tsServerLogLevel = TsServerLogLevel_Verbose
        /\ TsServerLogLevel_toString(Cfg(i).tsServerLogLevel) = S_verbose

(* C8: isEqualTo is reflexive and symmetric, and two snapshots built from
   identical raw settings are isEqualTo each other, also when the settings
   were changed and changed back between the two constructions. *)
C8_ReflexiveSymmetric ==
    /\ \A i, j \in Built :
        /\ isEqualTo(Cfg(i), Cfg(i))
        /\ isEqualTo(Cfg(i), Cfg(j)) <=> isEqualTo(Cfg(j), Cfg(i))
        /\ snapshots[i].src = snapshots[j].src => isEqualTo(Cfg(i), Cfg(j))
    /\ ret.op = "isEqualTo" =>
        /\ ret.this = ret.other => ret.value
        /\ snapshots[ret.this].src = snapshots[ret.other].src => ret.value

\* two snapshots of one store, two changes apart, compared
C8_Witness ==
    /\ ret.op = "isEqualTo"
    /\ ret.this # ret.other
    /\ snapshots[ret.this].src = snapshots[ret.other].src
    /\ snapshots[ret.other].at >= snapshots[ret.this].at + 2
    /\ ret.value

(* C9: no step changes a field of a snapshot that exists, whatever changes
   the store undergoes and whatever is constructed or compared later, and a
   step of loadFromWorkspace or isEqualTo leaves the settings store as it was. *)
C9_SnapshotsFrozen ==
    [][ /\ \A i \in 1..Len(snapshots) :
              /\ i <= Len(snapshots')
              /\ snapshots'[i].config = snapshots[i].config
        /\ ret'.op \in {"loadFromWorkspace", "isEqualTo"} => store' = store
      ]_vars

\* an older snapshot that differs from the store's present resolution, after
\* a change, a later construction and a comparison
C9_Witness ==
    /\ Len(snapshots) = 2
    /\ snapshots[1].at < snapshots[2].at
    /\ snapshots[2].at < edits
    /\ Cfg(1) = Constructor(snapshots[1].src).value
    /\ Cfg(1) # Cfg(2)
    /\ Cfg(1) # Constructor(store).value
    /\ ret.op = "isEqualTo"

BooleanField(k) ==
    CASE k = K_checkJs -> "checkJs"
      [] k = K_experimentalDecorators -> "experimentalDecorators"
      [] k = K_strictNullChecks -> "implicitStrictNullChecks"
      [] k = K_strictFunctionTypes -> "implicitStrictFunctionTypes"
      [] k = K_disableAutomaticTypeAcquisition -> "disableAutomaticTypeAcquisition"
      [] k = K_enableProjectDiagnostics -> "enableProjectDiagnostics"
      [] k = K_enablePromptUseWorkspaceTsdk -> "enablePromptUseWorkspaceTsdk"

(* C10: an absent key resolves to the documented default: false for checkJs,
   experimentalDecorators, disableAutomaticTypeAcquisition,
   enableProjectDiagnostics and enablePromptUseWorkspaceTsdk, true for
   implicitStrictNullChecks and implicitStrictFunctionTypes, the empty
   sequence for the plugin paths, absent for locale, npmLocation,
   watchOptions and includePackageJsonAutoImports; a key present with a
   well-typed value resolves to that value. *)
C10_DefaultsAndDirectReads ==
    \A i \in Built :
        /\ \A k \in BooleanKeys :
              LET v == Raw(i, k)
                  f == Cfg(i)[BooleanField(k)]
              IN  /\ v = Undefined =>
                        f = Bool(k \in {K_strictNullChecks, K_strictFunctionTypes})
                  /\ v.t = "boolean" => f = v
        /\ LET v == Raw(i, K_pluginPaths)
               f == Cfg(i).tsServerPluginPaths
           IN  /\ v = Undefined => f = Arr(<<>>)
               /\ v.t = "array" => f = v
        /\ LET v == Raw(i, K_locale)
               f == Cfg(i).locale
           IN  /\ v = Undefined => f = Null
               /\ v.t = "string" => f = v
        /\ LET v == Raw(i, K_npm)
               f == Cfg(i).npmLocation
           IN  /\ v = Undefined => f = Null
               /\ v.t = "string" => f = v
        /\ LET v == Raw(i, K_watchOptions)
               f == Cfg(i).watchOptions
           IN  /\ v = Undefined => f = Undefined
               /\ v.t = "object" => f = v
        /\ LET v == Raw(i, K_includePackageJsonAutoImports)
               f == Cfg(i).includePackageJsonAutoImports
           IN  /\ v = Undefined => f = Undefined
               /\ v \in {Str(S_auto), Str(<<"o", "n">>), Str(S_off)} => f = v

\* a snapshot built with the plugin paths and the strict flags absent and
\* checkJs set
C10_Witness ==
    \E i \in Built :
        /\ Raw(i, K_pluginPaths) = Undefined
        /\ Cfg(i).tsServerPluginPaths = Arr(<<>>)
        /\ Raw(i, K_strictNullChecks) = Undefined
        /\ Cfg(i).implicitStrictNullChecks = Bool(TRUE)
        /\ Raw(i, K_checkJs) = Bool(TRUE)
        /\ Cfg(i).checkJs = Bool(TRUE)

====
